---------------------------- MODULE Spec2Model ----------------------------
(***************************************************************************)
(* Shard coordination engine of shardman (src/shardman/__init__.py).       *)
(*                                                                         *)
(* The handlers are asyncio coroutines: each runs without interruption     *)
(* between two awaits, and every await of the database (Shard.count,       *)
(* find_one, insert, save, delete) or of state.lock is a point where the   *)
(* other coroutines run.  One action of the model is one such piece of a   *)
(* handler, from one await to the next.                                    *)
(*                                                                         *)
(* Time is in seconds.  Session ids (ulid.new().str) are modelled by a     *)
(* counter: every call mints a value never minted before.  Session id 0 is *)
(* a token that was never issued.                                          *)
(*                                                                         *)
(* shardman/state.py (StateManager: lock, total_shards, get_shard_id,      *)
(* get_missing_shards, check_sessions) is not among the sources; those     *)
(* definitions follow sections 4.3 and 4.5 of the specification.           *)
(***************************************************************************)
EXTENDS Integers, Sequences, FiniteSets

VARIABLES
    total_shards,      \* state.total_shards
    shards,            \* the Shard collection: a set of documents
    next_halt_time,    \* global next_halt_time (None before the first connect)
    left_before_halt,  \* global left_before_halt
    lock,              \* holder of state.lock, or Nobody
    now,               \* datetime.now(tz=utc)
    nextSession,       \* the next value ulid.new() returns
    task,              \* per request task: position in its handler and its locals
    quota,             \* requests still to arrive
    log                \* history: the responses of connect(), in order, in the
                       \* specifications that record them

vars == <<total_shards, shards, next_halt_time, left_before_halt, lock, now,
          nextSession, task, quota, log>>

-----------------------------------------------------------------------------
(* Bounds of the model *)

MaxTasks == 2

MaxShards == 2

MaxTime == 3

MaxCalls == 4

MaxBurst == 7

MaxBurstTime == 6

MaxSweepTime == 8

MaxSweepCalls == 6

(* Program constants *)

WindowLength == 5

BucketSize == 5

HeartbeatTimeout == 2

-----------------------------------------------------------------------------
None == -1

Nobody == 0

Tasks == 1..MaxTasks

(* models.Shard: the stored fields of a document.  A document's _id is     *)
(* minted with it, as its session_id is, so session_id stands for both.    *)
Shard(shard_id, session_id, last_beat) ==
    [shard_id |-> shard_id, session_id |-> session_id, last_beat |-> last_beat]

(* a request task: where it is in its handler (pc), the status of the     *)
(* response it sent last, and the handler's locals; at and fresh note the  *)
(* time of its admission step and whether that step started a window       *)
IdleTask ==
    [pc |-> "idle", status |-> 0, shard_id |-> None, session_id |-> None,
     last_beat |-> None, sleep_duration |-> 0, at |-> None, fresh |-> FALSE]

(* await Shard.count() *)
Count == Cardinality(shards)

LiveIdentities == {r.shard_id : r \in shards}

(* state.get_missing_shards(): the complement of the live identities       *)
(* within [0, total_shards)                                                *)
MissingShards == (0..(total_shards - 1)) \ LiveIdentities

Min(S) == CHOOSE x \in S : \A y \in S : x <= y

(* state.get_shard_id(): FleetFull (None here) when the count of live      *)
(* records is >= total_shards, else the lowest identity not live           *)
GetShardId ==
    IF Count >= total_shards \/ MissingShards = {} THEN None ELSE Min(MissingShards)

(* Shard.find_one(Shard.session_id == sid) *)
Found(sid) == \E r \in shards : r.session_id = sid

FindOne(sid) == CHOOSE r \in shards : r.session_id = sid

Ready(t) == task[t].pc \in {"idle", "done"}

Done(t, status) == [IdleTask EXCEPT !.pc = "done", !.status = status]

-----------------------------------------------------------------------------
(* connect(), lines 67-101 *)

(* line 70: the fleet is full *)
NoShardsAvailable == Count >= total_shards

(* line 73: async with state.lock *)
CanAcquire_NoLock == TRUE

CanAcquire == lock = Nobody

(* line 81: no window yet, or the window ended before now *)
WindowOver == next_halt_time = None \/ next_halt_time < now

(* lines 82-83 *)
HaltTimeAfterCheck == IF WindowOver THEN now + WindowLength ELSE next_halt_time

LeftAfterCheck == IF WindowOver THEN BucketSize ELSE left_before_halt

(* line 84 *)
Throttled_OffByOne == LeftAfterCheck < 0

Throttled == LeftAfterCheck <= 0

(* lines 79, 86 *)
SleepDuration == IF Throttled THEN WindowLength ELSE 0

(* lines 85, 89 *)
LeftAfterConnect_NoReset == LeftAfterCheck - 1

LeftAfterConnect == (IF Throttled THEN BucketSize ELSE LeftAfterCheck) - 1

(* lines 77, 87 *)
ConnectLastBeat_NotPredated == now

ConnectLastBeat == IF Throttled THEN now + WindowLength ELSE now

(* line 91: the document connect() inserts *)
ConnectShard_Count(t) == Shard(Count, nextSession, ConnectLastBeat)

ConnectShard(t) == Shard(task[t].shard_id, nextSession, ConnectLastBeat)

(* lines 67-71: the request arrives, await Shard.count() *)
ConnectCount(t) ==
    /\ Ready(t)
    /\ quota > 0
    /\ quota' = quota - 1
    /\ IF NoShardsAvailable
       THEN task' = [task EXCEPT ![t] = Done(t, 401)]
       ELSE task' = [task EXCEPT ![t] = [IdleTask EXCEPT !.pc = "lock"]]
    /\ UNCHANGED <<total_shards, shards, next_halt_time, left_before_halt, lock,
                   now, nextSession>>

(* lines 73-74: the lock is acquired and state.get_shard_id() reads the     *)
(* collection; when it raises, async with releases the lock                 *)
ConnectGetShardId(t) ==
    /\ task[t].pc = "lock"
    /\ CanAcquire
    /\ IF GetShardId = None
       THEN /\ task' = [task EXCEPT ![t] = Done(t, 401)]
            /\ lock' = lock
       ELSE /\ task' = [task EXCEPT ![t].pc = "insert", ![t].shard_id = GetShardId]
            /\ lock' = t
    /\ UNCHANGED <<total_shards, shards, next_halt_time, left_before_halt, now,
                   nextSession, quota>>

(* lines 76-92: session id, time stamp, the admission window, the insert *)
ConnectInsert(t) ==
    /\ task[t].pc = "insert"
    /\ next_halt_time' = HaltTimeAfterCheck
    /\ left_before_halt' = LeftAfterConnect
    /\ nextSession' = nextSession + 1
    /\ shards' = shards \cup {ConnectShard(t)}
    /\ task' = [task EXCEPT ![t].pc = "alert",
                            ![t].session_id = nextSession,
                            ![t].last_beat = ConnectLastBeat,
                            ![t].sleep_duration = SleepDuration,
                            ![t].at = now,
                            ![t].fresh = WindowOver]
    /\ UNCHANGED <<total_shards, lock, now, quota>>

(* lines 94-101: the alert is sent, the response returned, the lock released *)
ConnectReturn(t) ==
    /\ task[t].pc = "alert"
    /\ lock' = IF lock = t THEN Nobody ELSE lock
    /\ task' = [task EXCEPT ![t] = [Done(t, 200) EXCEPT !.shard_id = task[t].shard_id]]
    /\ UNCHANGED <<total_shards, shards, next_halt_time, left_before_halt, now,
                   nextSession, quota>>

ConnectInsertFails_Refund(t) ==
    /\ task[t].pc = "insert"
    /\ next_halt_time' = HaltTimeAfterCheck
    /\ left_before_halt' = LeftAfterConnect + 1
    /\ nextSession' = nextSession + 1
    /\ lock' = IF lock = t THEN Nobody ELSE lock
    /\ task' = [task EXCEPT ![t] = Done(t, 500)]
    /\ UNCHANGED <<total_shards, shards, now, quota>>

(* lines 76-92 when shard.insert() raises: the window was updated before    *)
(* the insert, the exception leaves async with, which releases the lock     *)
ConnectInsertFails(t) ==
    /\ task[t].pc = "insert"
    /\ next_halt_time' = HaltTimeAfterCheck
    /\ left_before_halt' = LeftAfterConnect
    /\ nextSession' = nextSession + 1
    /\ lock' = IF lock = t THEN Nobody ELSE lock
    /\ task' = [task EXCEPT ![t] = Done(t, 500)]
    /\ UNCHANGED <<total_shards, shards, now, quota>>

ConnectAlertFails_KeepsLock(t) ==
    /\ task[t].pc = "alert"
    /\ task' = [task EXCEPT ![t] = Done(t, 500)]
    /\ UNCHANGED <<total_shards, shards, next_halt_time, left_before_halt, lock,
                   now, nextSession, quota>>

(* line 94 when state.send_alert() raises: the document stays inserted, the *)
(* exception leaves async with, which releases the lock                     *)
ConnectAlertFails(t) ==
    /\ task[t].pc = "alert"
    /\ lock' = IF lock = t THEN Nobody ELSE lock
    /\ task' = [task EXCEPT ![t] = Done(t, 500)]
    /\ UNCHANGED <<total_shards, shards, next_halt_time, left_before_halt, now,
                   nextSession, quota>>

-----------------------------------------------------------------------------
(* re_register(payload), lines 165-190: no lock is taken *)

ReRegisterCheck_TotalFirst(t, shard_id, max_shards) ==
    /\ Ready(t)
    /\ quota > 0
    /\ quota' = quota - 1
    /\ IF max_shards # total_shards
       THEN /\ task' = [task EXCEPT ![t] = Done(t, 412)]
            /\ nextSession' = nextSession
       ELSE IF shard_id \notin MissingShards
       THEN /\ task' = [task EXCEPT ![t] = Done(t, 409)]
            /\ nextSession' = nextSession
       ELSE /\ task' = [task EXCEPT ![t] = [IdleTask EXCEPT !.pc = "reinsert",
                                              !.shard_id = shard_id,
                                              !.session_id = nextSession,
                                              !.last_beat = now]]
            /\ nextSession' = nextSession + 1
    /\ UNCHANGED <<total_shards, shards, next_halt_time, left_before_halt, lock,
                   now>>

(* lines 170-178: await state.get_missing_shards(), the two checks, the     *)
(* session id and the time stamp                                            *)
ReRegisterCheck(t, shard_id, max_shards) ==
    /\ Ready(t)
    /\ quota > 0
    /\ quota' = quota - 1
    /\ IF shard_id \notin MissingShards
       THEN /\ task' = [task EXCEPT ![t] = Done(t, 409)]
            /\ nextSession' = nextSession
       ELSE IF max_shards # total_shards
       THEN /\ task' = [task EXCEPT ![t] = Done(t, 412)]
            /\ nextSession' = nextSession
       ELSE /\ task' = [task EXCEPT ![t] = [IdleTask EXCEPT !.pc = "reinsert",
                                              !.shard_id = shard_id,
                                              !.session_id = nextSession,
                                              !.last_beat = now]]
            /\ nextSession' = nextSession + 1
    /\ UNCHANGED <<total_shards, shards, next_halt_time, left_before_halt, lock,
                   now>>

ReRegisterInsert_ConsumesSlot(t) ==
    /\ task[t].pc = "reinsert"
    /\ shards' = shards \cup
                   {Shard(task[t].shard_id, task[t].session_id, task[t].last_beat)}
    /\ left_before_halt' = left_before_halt - 1
    /\ task' = [task EXCEPT ![t] = Done(t, 200)]
    /\ UNCHANGED <<total_shards, next_halt_time, lock, now, nextSession, quota>>

(* lines 180-190: the insert, the alert, the response *)
ReRegisterInsert(t) ==
    /\ task[t].pc = "reinsert"
    /\ shards' = shards \cup
                   {Shard(task[t].shard_id, task[t].session_id, task[t].last_beat)}
    /\ task' = [task EXCEPT ![t] = Done(t, 200)]
    /\ UNCHANGED <<total_shards, next_halt_time, left_before_halt, lock, now,
                   nextSession, quota>>

-----------------------------------------------------------------------------
(* beat(heartbeat), lines 114-125.  guild_count, latency and extra are not  *)
(* fields of models.Shard; of what beat() sets, last_beat is stored.        *)

BeatFind_Unchecked(t, session_id) ==
    /\ Ready(t)
    /\ quota > 0
    /\ quota' = quota - 1
    /\ task' = [task EXCEPT ![t] = [IdleTask EXCEPT !.pc = "save",
                                      !.shard_id = 0,
                                      !.session_id = session_id,
                                      !.last_beat = now]]
    /\ UNCHANGED <<total_shards, shards, next_halt_time, left_before_halt, lock,
                   now, nextSession>>

BeatFind_NoRangeCheck(t, session_id) ==
    /\ Ready(t)
    /\ quota > 0
    /\ quota' = quota - 1
    /\ LET shard == FindOne(session_id) IN
       IF ~Found(session_id)
       THEN task' = [task EXCEPT ![t] = Done(t, 404)]
       ELSE task' = [task EXCEPT ![t] = [IdleTask EXCEPT !.pc = "save",
                                           !.shard_id = shard.shard_id,
                                           !.session_id = shard.session_id,
                                           !.last_beat = now]]
    /\ UNCHANGED <<total_shards, shards, next_halt_time, left_before_halt, lock,
                   now, nextSession>>

(* lines 115-124: find_one, the two checks, the new time stamp *)
BeatFind(t, session_id) ==
    /\ Ready(t)
    /\ quota > 0
    /\ quota' = quota - 1
    /\ LET shard == FindOne(session_id) IN
       IF ~Found(session_id)
       THEN task' = [task EXCEPT ![t] = Done(t, 404)]
       ELSE IF shard.shard_id >= total_shards
       THEN task' = [task EXCEPT ![t] = Done(t, 401)]
       ELSE task' = [task EXCEPT ![t] = [IdleTask EXCEPT !.pc = "save",
                                           !.shard_id = shard.shard_id,
                                           !.session_id = shard.session_id,
                                           !.last_beat = now]]
    /\ UNCHANGED <<total_shards, shards, next_halt_time, left_before_halt, lock,
                   now, nextSession>>

(* Document.save(): updates the stored document with this _id, or inserts   *)
(* the document when none is stored                                         *)
Save(doc) == {r \in shards : r.session_id # doc.session_id} \cup {doc}

(* line 125 *)
BeatSave(t) ==
    /\ task[t].pc = "save"
    /\ shards' = Save(Shard(task[t].shard_id, task[t].session_id, task[t].last_beat))
    /\ task' = [task EXCEPT ![t] = Done(t, 204)]
    /\ UNCHANGED <<total_shards, next_halt_time, left_before_halt, lock, now,
                   nextSession, quota>>

-----------------------------------------------------------------------------
(* disconnect(resp), lines 137-142 *)

(* lines 138-140 *)
DisconnectFind(t, session_id) ==
    /\ Ready(t)
    /\ quota > 0
    /\ quota' = quota - 1
    /\ LET shard == FindOne(session_id) IN
       IF ~Found(session_id)
       THEN task' = [task EXCEPT ![t] = Done(t, 404)]
       ELSE task' = [task EXCEPT ![t] = [IdleTask EXCEPT !.pc = "delete",
                                           !.session_id = shard.session_id]]
    /\ UNCHANGED <<total_shards, shards, next_halt_time, left_before_halt, lock,
                   now, nextSession>>

(* Document.delete(): removes the stored document with this _id, if any *)
Delete(session_id) == {r \in shards : r.session_id # session_id}

(* line 142 *)
DisconnectDelete(t) ==
    /\ task[t].pc = "delete"
    /\ shards' = Delete(task[t].session_id)
    /\ task' = [task EXCEPT ![t] = Done(t, 204)]
    /\ UNCHANGED <<total_shards, next_halt_time, left_before_halt, lock, now,
                   nextSession, quota>>

-----------------------------------------------------------------------------
(* state.check_sessions(), started at line 47: the liveness sweep *)

Stale(r) == now - r.last_beat > HeartbeatTimeout

(* one eviction, under the lock *)
CheckSessions ==
    /\ lock = Nobody
    /\ \E r \in shards :
         /\ Stale(r)
         /\ shards' = shards \ {r}
    /\ UNCHANGED <<total_shards, next_halt_time, left_before_halt, lock, now,
                   nextSession, task, quota>>

(* the clock *)
Tick(limit) ==
    /\ now < limit
    /\ now' = now + 1
    /\ UNCHANGED <<total_shards, shards, next_halt_time, left_before_halt, lock,
                   nextSession, task, quota>>

-----------------------------------------------------------------------------
(* Specifications *)

InitState(total, calls) ==
    /\ total_shards = total
    /\ shards = {}
    /\ next_halt_time = None
    /\ left_before_halt = BucketSize
    /\ lock = Nobody
    /\ now = 0
    /\ nextSession = 1
    /\ task = [t \in Tasks |-> IdleTask]
    /\ quota = calls
    /\ log = <<>>

SessionIds == 0..(nextSession - 1)

Connect(t) ==
    \/ ConnectCount(t)
    \/ ConnectGetShardId(t)
    \/ ConnectInsert(t)
    \/ ConnectReturn(t)

ReRegister(t) ==
    \/ \E i \in 0..MaxShards, m \in {total_shards, total_shards + 1} :
         ReRegisterCheck(t, i, m)
    \/ ReRegisterInsert(t)

Beat(t) ==
    \/ \E s \in SessionIds : BeatFind(t, s)
    \/ BeatSave(t)

Disconnect(t) ==
    \/ \E s \in SessionIds : DisconnectFind(t, s)
    \/ DisconnectDelete(t)

(* lines 96-101, and the 401 of lines 71 and 74: the response of connect() *)
(* that task t sends in this step, with the time of its admission step     *)
Response(t) ==
    [status |-> task'[t].status, shard_id |-> task[t].shard_id,
     sleep_duration |-> task[t].sleep_duration, at |-> task[t].at,
     fresh |-> task[t].fresh]

Responds(t) == task[t].pc # "done" /\ task'[t].pc = "done"

(* a step of connect(), its response recorded *)
Recorded(t) ==
    /\ Connect(t)
    /\ log' = IF Responds(t) THEN Append(log, Response(t)) ELSE log

(* every operation, total_shards fixed *)
Init == \E n \in 1..MaxShards : InitState(n, MaxCalls)

Next ==
    \/ \E t \in Tasks : Connect(t) /\ log' = log
    \/ \E t \in Tasks : ReRegister(t) /\ log' = log
    \/ \E t \in Tasks : Beat(t) /\ log' = log
    \/ \E t \in Tasks : Disconnect(t) /\ log' = log
    \/ CheckSessions /\ log' = log
    \/ Tick(MaxTime) /\ log' = log

Spec == Init /\ [][Next]_vars

(* concurrent connect() calls against an empty collection, nothing else *)
NextConnect ==
    \/ \E t \in Tasks : Recorded(t)
    \/ Tick(MaxTime) /\ log' = log

SpecConnect == Init /\ [][NextConnect]_vars

(* a burst of connect() calls into a fleet large enough to take them all *)
InitBurst == InitState(MaxBurst, MaxBurst)

NextBurst ==
    \/ \E t \in Tasks : Recorded(t)
    \/ Tick(MaxBurstTime) /\ log' = log

SpecBurst == InitBurst /\ [][NextBurst]_vars

(* the fleet metadata cache refreshed: total_shards takes the value the     *)
(* upstream reports now                                                    *)
Resize ==
    /\ \E n \in 1..MaxShards :
         /\ n # total_shards
         /\ total_shards' = n
    /\ UNCHANGED <<shards, next_halt_time, left_before_halt, lock, now,
                   nextSession, task, quota>>

(* a step of beat(), its response recorded with the session it named and   *)
(* the time of its find_one                                                *)
RecordedBeat(t) ==
    \/ \E s \in SessionIds :
         /\ BeatFind(t, s)
         /\ log' = IF Responds(t)
                   THEN Append(log, [status |-> task'[t].status,
                                     session_id |-> s, at |-> now])
                   ELSE log
    \/ BeatSave(t) /\ log' = log

(* every operation, total_shards refreshed at any time *)
NextResize ==
    \/ \E t \in Tasks : Connect(t) /\ log' = log
    \/ \E t \in Tasks : ReRegister(t) /\ log' = log
    \/ \E t \in Tasks : RecordedBeat(t)
    \/ \E t \in Tasks : Disconnect(t) /\ log' = log
    \/ CheckSessions /\ log' = log
    \/ Resize /\ log' = log
    \/ Tick(MaxTime) /\ log' = log

SpecResize == Init /\ [][NextResize]_vars

(* the burst, left without heartbeats until the sweep evicts it *)
InitSweep == InitState(MaxSweepCalls, MaxSweepCalls)

NextSweep ==
    \/ \E t \in Tasks : Connect(t) /\ log' = log
    \/ CheckSessions /\ log' = log
    \/ Tick(MaxSweepTime) /\ log' = log

SpecSweep == InitSweep /\ [][NextSweep]_vars

(* connect() calls whose insert or alert may raise *)
ConnectOrFail(t) ==
    \/ Connect(t)
    \/ ConnectInsertFails(t)
    \/ ConnectAlertFails(t)

NextFail ==
    \/ \E t \in Tasks : ConnectOrFail(t) /\ log' = log
    \/ Tick(MaxBurstTime) /\ log' = log

SpecFail == InitBurst /\ [][NextFail]_vars

(* the same, scheduled fairly: asyncio.Lock wakes its waiters in the order  *)
(* they came, and an awaited insert or alert returns or raises              *)
Fairness ==
    \A t \in Tasks :
        /\ SF_vars(ConnectGetShardId(t) /\ log' = log)
        /\ WF_vars((ConnectInsert(t) \/ ConnectInsertFails(t)) /\ log' = log)
        /\ WF_vars((ConnectReturn(t) \/ ConnectAlertFails(t)) /\ log' = log)

SpecFair == Init /\ [][NextFail]_vars /\ Fairness

-----------------------------------------------------------------------------
(* Claims *)

Started(calls) == calls - quota

Status200(i) == log[i].status = 200

(* C1: in every reachable state the collection holds at most one document  *)
(* per shard_id.                                                           *)
C1_OneRecordPerIdentity ==
    \A r1 \in shards : \A r2 \in shards :
        r1.shard_id = r2.shard_id => r1 = r2

(* C2: while no more connect() calls were started than total_shards,       *)
(* every response so far is a 200, no two responses carry the same         *)
(* shard_id, and once all the calls have responded the shard_ids are       *)
(* exactly 0 .. k-1.                                                       *)
C2_ConcurrentConnectsDistinct ==
    Started(MaxCalls) <= total_shards =>
        /\ \A i \in DOMAIN log : Status200(i)
        /\ \A i \in DOMAIN log : \A j \in DOMAIN log :
               log[i].shard_id = log[j].shard_id => i = j
        /\ Len(log) = Started(MaxCalls) =>
               {log[i].shard_id : i \in DOMAIN log} = 0..(Len(log) - 1)

C2_Witness ==
    /\ total_shards = MaxShards
    /\ Started(MaxCalls) = MaxShards
    /\ Len(log) = MaxShards

(* the instant a connection is allowed to proceed *)
AdmittedAt(i) == log[i].at + log[i].sleep_duration

AdmittedIn(from) ==
    {i \in DOMAIN log :
        Status200(i) /\ from <= AdmittedAt(i) /\ AdmittedAt(i) < from + WindowLength}

(* C3: in every interval of WindowLength seconds at most BucketSize        *)
(* connections are admitted.                                               *)
C3_RateLimit ==
    \A from \in 0..(MaxBurstTime + WindowLength) :
        Cardinality(AdmittedIn(from)) <= BucketSize

(* the position of response i among the 200s of its window: 1 for the call *)
(* that started the window                                                  *)
PositionInWindow(i) ==
    LET start == CHOOSE j \in 1..i :
                    /\ log[j].fresh
                    /\ \A k \in (j + 1)..i : ~log[k].fresh
    IN  Cardinality({k \in start..i : Status200(k)})

(* C4: of the calls admitted in one window the first BucketSize are told   *)
(* to sleep 0 and the next one WindowLength; sleep_duration is never       *)
(* anything else.                                                          *)
C4_SleepDuration ==
    \A i \in DOMAIN log :
        Status200(i) =>
            /\ log[i].sleep_duration \in {0, WindowLength}
            /\ PositionInWindow(i) <= BucketSize => log[i].sleep_duration = 0
            /\ PositionInWindow(i) = BucketSize + 1 =>
                   log[i].sleep_duration = WindowLength

C4_Witness ==
    \E i \in DOMAIN log :
        /\ PositionInWindow(i) = BucketSize + 1
        /\ log[i].sleep_duration = WindowLength
        /\ \A j \in 1..(i - 1) : log[j].sleep_duration = 0

(* C5: the identity connect() is allocated is the smallest identity of    *)
(* [0, total_shards) that no document holds when the allocation runs, the  *)
(* document it inserts carries that identity, and so does its response.    *)
C5_LowestFreeIdentity ==
    [][\A t \in Tasks :
        /\ (task[t].pc = "lock" /\ task'[t].pc = "insert") =>
              /\ task'[t].shard_id \in MissingShards
              /\ \A i \in MissingShards : task'[t].shard_id <= i
        /\ (task[t].pc = "insert" /\ task'[t].pc = "alert") =>
              \E r \in shards' :
                  /\ r \notin shards
                  /\ shards' = shards \cup {r}
                  /\ r.shard_id = task[t].shard_id
                  /\ r.session_id = task'[t].session_id
                  /\ task'[t].shard_id = task[t].shard_id
        /\ (task[t].pc = "alert" /\ task'[t].pc = "done") =>
              /\ task'[t].status = 200
              /\ task'[t].shard_id = task[t].shard_id
      ]_vars

(* connect() answered 0 while identity 1 was held by an older session *)
C5_Witness ==
    \E t \in Tasks : \E r0 \in shards : \E r1 \in shards :
        /\ task[t].pc = "done" /\ task[t].status = 200 /\ task[t].shard_id = 0
        /\ r0.shard_id = 0
        /\ r1.shard_id = 1
        /\ r1.session_id < r0.session_id

Payloads == (0..MaxShards) \X {total_shards, total_shards + 1}

(* C6: re_register answers 409 when shard_id is not missing, whatever      *)
(* max_shards is; else 412 when max_shards differs from total_shards; else *)
(* it inserts one document with that shard_id, a session id never issued   *)
(* before and last_beat the time of the call.  A rejection changes no      *)
(* document.                                                               *)
C6_ReRegisterRules ==
    [][\A t \in Tasks :
        /\ \A p \in Payloads :
             ReRegisterCheck(t, p[1], p[2]) =>
               /\ p[1] \notin MissingShards =>
                     /\ task'[t].pc = "done" /\ task'[t].status = 409
                     /\ shards' = shards
               /\ (p[1] \in MissingShards /\ p[2] # total_shards) =>
                     /\ task'[t].pc = "done" /\ task'[t].status = 412
                     /\ shards' = shards
               /\ (p[1] \in MissingShards /\ p[2] = total_shards) =>
                     /\ task'[t].pc = "reinsert"
                     /\ task'[t].shard_id = p[1]
                     /\ task'[t].session_id \notin SessionIds
                     /\ task'[t].last_beat = now
                     /\ shards' = shards
        /\ ReRegisterInsert(t) =>
               /\ ~Found(task[t].session_id)
               /\ shards' = shards \cup {Shard(task[t].shard_id, task[t].session_id,
                                               task[t].last_beat)}
               /\ Cardinality(shards') = Cardinality(shards) + 1
               /\ task'[t].status = 200
      ]_vars

C6_Witness ==
    \E t \in Tasks : \E u \in Tasks :
        /\ task[t].pc = "done" /\ task[t].status = 412
        /\ task[u].pc = "done" /\ task[u].status = 409

(* C7: with only connect() calls running, the collection never holds more  *)
(* than total_shards documents, and a call whose allocation runs when it   *)
(* holds total_shards or more answers 401 and inserts nothing.             *)
C7_FleetFull ==
    /\ [](Count <= total_shards)
    /\ [][\A t \in Tasks :
            (task[t].pc = "lock" /\ task'[t].pc # "lock" /\ Count >= total_shards) =>
                /\ task'[t].pc = "done" /\ task'[t].status = 401
                /\ shards' = shards
         ]_vars

(* a caller that passed the count check while a slot was free, at its      *)
(* allocation with the fleet full                                          *)
C7_Witness ==
    \E t \in Tasks :
        /\ task[t].pc = "lock"
        /\ lock = Nobody
        /\ Count >= total_shards

(* C8: the eviction of a stale document by the sweep leaves its identity   *)
(* missing, so that connect() or re_register can hand it out again.        *)
C8_EvictionFreesIdentity ==
    [][\A r \in shards :
        (CheckSessions /\ r \notin shards') => r.shard_id \in MissingShards'
      ]_vars

(* C9: a heartbeat changes no document of another session, keeps the       *)
(* shard_id of its own, leaves the set of live identities as it was and    *)
(* does not touch the admission window.                                    *)
C9_HeartbeatFrame ==
    [][\A t \in Tasks :
        /\ (\E s \in SessionIds : BeatFind(t, s)) =>
               UNCHANGED <<shards, next_halt_time, left_before_halt>>
        /\ BeatSave(t) =>
               /\ {q \in shards' : q.session_id # task[t].session_id} =
                      {r \in shards : r.session_id # task[t].session_id}
               /\ \A r \in shards : \A q \in shards' :
                      (r.session_id = task[t].session_id
                          /\ q.session_id = task[t].session_id) =>
                      q.shard_id = r.shard_id
               /\ LiveIdentities' = LiveIdentities
               /\ UNCHANGED <<next_halt_time, left_before_halt>>
      ]_vars

(* C10: beat and disconnect for a session id that no document carries      *)
(* answer 404 and change neither the collection nor the admission window.  *)
C10_SessionNotFound ==
    [][\A t \in Tasks : \A s \in SessionIds :
        ((BeatFind(t, s) \/ DisconnectFind(t, s)) /\ ~Found(s)) =>
            /\ task'[t].pc = "done" /\ task'[t].status = 404
            /\ UNCHANGED <<shards, next_halt_time, left_before_halt>>
      ]_vars

(* a 404 for a session that was issued and is gone *)
C10_Witness ==
    \E t \in Tasks :
        /\ task[t].pc = "done" /\ task[t].status = 404
        /\ nextSession > 1
        /\ shards = {}

(* past the allocation or availability check, the insert not yet done *)
InCriticalSection(t) == task[t].pc \in {"insert", "reinsert"}

(* C11: no two requests are at once past their allocation (connect) or     *)
(* availability check (re_register) and before the end of their insert.    *)
C11_MutualExclusion ==
    \A t \in Tasks : \A u \in Tasks :
        (InCriticalSection(t) /\ InCriticalSection(u)) => t = u

(* the document of session s was inserted and is gone *)
Deleted(s) ==
    /\ s \in 1..(nextSession - 1)
    /\ ~Found(s)
    /\ \A t \in Tasks : ~(task[t].pc = "reinsert" /\ task[t].session_id = s)

(* C12: once the document of a session is deleted, no document with that   *)
(* session id exists in any later state.                                   *)
C12_DeletedIsTerminal ==
    [][\A s \in SessionIds : Deleted(s) => ~Found(s)']_vars

(* C13: re_register, accepted or rejected, leaves next_halt_time and        *)
(* left_before_halt as they were and answers sleep_duration 0.              *)
C13_ReRegisterFrame ==
    [][\A t \in Tasks :
        ((\E p \in Payloads : ReRegisterCheck(t, p[1], p[2])) \/ ReRegisterInsert(t)) =>
            /\ UNCHANGED <<next_halt_time, left_before_halt>>
            /\ task'[t].sleep_duration = 0
      ]_vars

(* a re_register answered 200 and no window was ever started *)
C13_Witness ==
    \E t \in Tasks :
        /\ task[t].pc = "done" /\ task[t].status = 200 /\ task[t].shard_id = None
        /\ shards # {}
        /\ next_halt_time = None
        /\ left_before_halt = BucketSize

(* C17: a disconnect that found its session deletes the document of that   *)
(* session and no other, does not touch the admission window, and leaves   *)
(* the identity of the deleted document missing.                           *)
C17_DisconnectFrame ==
    [][\A t \in Tasks :
        DisconnectDelete(t) =>
            /\ shards' = {r \in shards : r.session_id # task[t].session_id}
            /\ UNCHANGED <<next_halt_time, left_before_halt>>
            /\ \A r \in shards :
                   r.session_id = task[t].session_id => r.shard_id \in MissingShards'
      ]_vars

(* C14: when the insert of an admitted connect() fails, the admission      *)
(* window stays as the call set it (the slot is not given back), no        *)
(* document is created and the lock is free again.                         *)
C14_NoRefund ==
    [][\A t \in Tasks :
        ConnectInsertFails(t) =>
            /\ shards' = shards
            /\ lock' = Nobody
            /\ task'[t].pc = "done" /\ task'[t].status = 500
            /\ WindowOver =>
                   /\ next_halt_time' = now + WindowLength
                   /\ left_before_halt' = BucketSize - 1
            /\ (~WindowOver /\ left_before_halt > 0) =>
                   /\ next_halt_time' = next_halt_time
                   /\ left_before_halt' = left_before_halt - 1
            /\ (~WindowOver /\ left_before_halt <= 0) =>
                   /\ next_halt_time' = next_halt_time
                   /\ left_before_halt' = BucketSize - 1
      ]_vars

(* the first insert failed, and the next connect() holds the lock *)
C14_Witness ==
    \E t \in Tasks : \E u \in Tasks :
        /\ task[t].pc = "done" /\ task[t].status = 500
        /\ shards = {}
        /\ left_before_halt = BucketSize - 1
        /\ task[u].pc = "insert" /\ lock = u

(* C18: a connect() that waits for the lock gets it and completes, and     *)
(* every way out of the critical section leaves the lock free.             *)
C18_LockReleased ==
    /\ \A t \in Tasks : (task[t].pc = "lock") ~> (task[t].pc = "done")
    /\ [][\A t \in Tasks :
            (lock = t /\ task'[t].pc = "done") => lock' = Nobody
         ]_vars

(* a connect() holds the lock after another left the critical section by   *)
(* an exception                                                            *)
C18_Witness ==
    \E t \in Tasks : \E u \in Tasks :
        /\ task[u].pc = "done" /\ task[u].status = 500
        /\ task[t].pc = "insert" /\ lock = t

(* C15: a connect() admitted when there is no window, or at or after       *)
(* next_halt_time, starts a window (next_halt_time = now + WindowLength,   *)
(* BucketSize slots, of which it takes one); one admitted before           *)
(* next_halt_time leaves next_halt_time as it was.                         *)
C15_WindowStart ==
    [][\A t \in Tasks :
        ConnectInsert(t) =>
            /\ (next_halt_time = None \/ now >= next_halt_time) =>
                   /\ next_halt_time' = now + WindowLength
                   /\ left_before_halt' = BucketSize - 1
            /\ (next_halt_time # None /\ now < next_halt_time) =>
                   next_halt_time' = next_halt_time
      ]_vars

(* C19: left_before_halt is always in 0 .. BucketSize, and in              *)
(* 0 .. BucketSize - 1 right after the admission step of a connect().      *)
C19_SlotsInRange ==
    /\ [](left_before_halt \in 0..BucketSize)
    /\ [][\A t \in Tasks :
            ConnectInsert(t) => left_before_halt' \in 0..(BucketSize - 1)
         ]_vars

(* a call found the counter at 0, reset it and took a slot *)
C19_Witness ==
    \E t \in Tasks :
        /\ task[t].pc = "alert"
        /\ task[t].sleep_duration = WindowLength
        /\ left_before_halt = BucketSize - 1

OutOfRange(s) == Found(s) /\ FindOne(s).shard_id >= total_shards

(* C20: while a record's shard_id is >= total_shards, a beat() for its     *)
(* session is answered 401 (not 404) and leaves the collection, last_beat  *)
(* included, as it was; such a record leaves the collection only by a      *)
(* disconnect() for its session or by the sweep once it is stale.          *)
C20_OutOfRangeHeartbeat ==
    [][\A s \in SessionIds :
        OutOfRange(s) =>
            /\ \A t \in Tasks :
                 BeatFind(t, s) =>
                     /\ task'[t].pc = "done"
                     /\ task'[t].status = 401
                     /\ shards' = shards
            /\ ~Found(s)' =>
                   \/ \E t \in Tasks :
                        DisconnectDelete(t) /\ task[t].session_id = s
                   \/ CheckSessions /\ Stale(FindOne(s))
      ]_vars

(* a beat() was answered 401 for a session whose record is still stored,   *)
(* out of range, with the last_beat it had before that beat()              *)
C20_Witness ==
    \E i \in 1..Len(log) :
        /\ log[i].status = 401
        /\ \E r \in shards :
             /\ r.session_id = log[i].session_id
             /\ r.shard_id >= total_shards
             /\ r.last_beat < log[i].at

=============================================================================
